---- MODULE Spec2Model ----
(***************************************************************************)
(* Model of the iterative document-improvement loop of autodoceval-crewai  *)
(* and of its history recorder:                                            *)
(*   - DocumentCrew.auto_improve          (src/evcrew/crew.py)             *)
(*   - IterationTracker                   (src/evcrew/tracking.py)         *)
(*   - auto_improve_document              (src/evcrew/core.py)             *)
(*   - DocumentIterator                   (src/evcrew/process.py)          *)
(* The Evaluator and the Improver are external collaborators: each call    *)
(* either raises or returns a value chosen nondeterministically.           *)
(***************************************************************************)
EXTENDS Integers, Sequences, FiniteSets, TLC

\* ------------------------------------------------------------------ bounds
\* max_iterations is drawn from 0..MaxIterations
MaxIterations == 2
\* scores and target_score are drawn from 0..MaxScore
MaxScore == 2
\* a caller of DocumentIterator calls __next__ at most this many times after
\* the first StopIteration
MaxExtraNext == 1
\* a direct user of IterationTracker calls add_iteration at most this many times
MaxAdds == 2
\* a direct user of IterationTracker passes iteration arguments 0..MaxIndex
MaxIndex == 2
\* an Evaluator response has at most MaxLines lines
MaxLines == 3
\* the improved_content of an Improver response has at most MaxContentLen characters
MaxContentLen == 2

\* ------------------------------------------------------------ value domains
Scores == 0..MaxScore
\* feedback texts the Evaluator may return
Feedbacks == {"unclear", "too short"}
\* document texts: the input document and what the Improver may return
InputDocs == {"", "draft"}
ImprovedDocs == {"draft", "better draft", "much better draft"}

\* Python's None and a present Optional value
None == <<>>
Some(x) == <<x>>
\* a local variable that has not been assigned yet
UnboundStr == "<unbound>"
UnboundNum == -1

\* the entry point the caller invokes
Entries == {"DocumentCrew.auto_improve", "auto_improve_document",
            "DocumentIterator", "IterationTracker", "parse_eval", "parse_improve"}

VARIABLES
    entry,            \* which entry point this run exercises
    content,          \* the input document text
    input_path,       \* auto_improve's input_path argument (Optional)
    path_exists,      \* whether doc_path names an existing file
    max_iterations,
    target_score,
    pc,               \* position of the running function
    raised,           \* the exception that left the function ("" when none)
    calls,            \* collaborator calls made so far, in order
    iter_files,       \* improved documents written to disk: set of <<path, text>>
    current_feedback,
    \* locals of DocumentCrew.auto_improve and of auto_improve_document
    score,
    feedback,
    current_doc,
    improved_doc,
    iteration,
    \* DocumentCrew.auto_improve
    iterations,       \* IterationTracker.iterations
    status,           \* terminal status returned by auto_improve
    final_doc,        \* document returned by auto_improve (Optional)
    tracking_file,    \* content of <doc>_tracking.json (Optional)
    eval_files,       \* evaluation results saved to disk: set of <<name, score, feedback>>
    \* auto_improve_document
    original_score,
    last_score,
    final_path,       \* Optional: unset before line 130
    \* DocumentIterator
    current_content,
    iteration_count,
    scores,
    contents,
    feedbacks,
    \* the caller of DocumentIterator.__next__
    yielded,          \* tuples returned by __next__ so far
    stops,            \* number of StopIterations raised so far
    extra_next,       \* __next__ calls made after the first StopIteration
    last_outcome,     \* how the latest __next__ call ended
    \* the direct user of IterationTracker
    added,            \* iteration arguments passed to add_iteration, in call order
    metadata_file,    \* {doc_id}_auto_improve_metadata.json (Optional)
    \* the Evaluator's response decoders
    response,         \* the raw response: a sequence of lines
    decoded           \* what parse_eval and parse_agent_response made of it (Optional)

inputs == <<entry, content, input_path, path_exists, max_iterations, target_score>>
loopLocals == <<score, feedback, current_doc, improved_doc, iteration>>
crewState == <<iterations, status, final_doc, tracking_file, eval_files>>
coreState == <<original_score, last_score, final_path>>
iterState == <<current_content, iteration_count, scores, contents, feedbacks>>
callerState == <<yielded, stops, extra_next, last_outcome>>
trackerUser == <<added, metadata_file>>
decoderState == <<response, decoded>>

vars == <<inputs, pc, raised, calls, iter_files, current_feedback, loopLocals,
          crewState, coreState, iterState, callerState, trackerUser, decoderState>>

\* --------------------------------------------------------------- helpers
Last(s) == s[Len(s)]

InputPath == [kind |-> "input", n |-> 0]
\* output_dir / f"{doc_name}_iter{iteration}.md"
IterPath(n) == [kind |-> "iter", n |-> n]

\* len(content.split()) for the document texts of the model
WordCount(d) ==
    CASE d = "" -> 0
      [] d = "draft" -> 1
      [] d = "better draft" -> 2
      [] d = "much better draft" -> 3
      [] OTHER -> 1

EvalCall(doc, result) ==
    [op |-> "evaluate", doc |-> doc, feedback |-> "", result |-> result]
ImproveCall(doc, fb, result) ==
    [op |-> "improve", doc |-> doc, feedback |-> fb, result |-> result]

RECURSIVE CountOp(_, _)
CountOp(log, op) ==
    IF log = <<>> THEN 0
    ELSE (IF Last(log).op = op THEN 1 ELSE 0) + CountOp(SubSeq(log, 1, Len(log) - 1), op)

EvaluatorCalls == CountOp(calls, "evaluate")
ImproverCalls == CountOp(calls, "improve")
\* Evaluator calls that returned a score
CompletedEvaluations == Len(SelectSeq(calls, LAMBDA c : c.op = "evaluate" /\ c.result # None))


\* ------------------------------------------------------- IterationTracker
\* line 62: QualityMetrics(score, feedback, word_count)
QualityMetrics(s, fb, cont) ==
    [score |-> s, feedback |-> fb,
     word_count |-> IF cont # None /\ cont[1] # "" THEN WordCount(cont[1]) ELSE 0]

\* mutant: the delta is stored without its sign
ImprovementDelta_Magnitude(its, iter, s) ==
    IF its # <<>> /\ iter > 0
    THEN Some(IF s >= Last(its).metrics.score THEN s - Last(its).metrics.score
              ELSE Last(its).metrics.score - s)
    ELSE None

\* lines 63-66: the delta against the previous record
ImprovementDelta(its, iter, s) ==
    IF its # <<>> /\ iter > 0 THEN Some(s - Last(its).metrics.score) ELSE None

\* line 68: IterationResult(...)
IterationResult(iter, metrics, improved_path, improvement_delta, cont) ==
    [iteration |-> iter, metrics |-> metrics, improved_path |-> improved_path,
     improvement_delta |-> improvement_delta, content |-> cont]

\* mutant: the record's index is taken from the list length, off by one
add_iteration_LenIndex(its, iter, s, fb, improved_path, cont) ==
    Append(its, IterationResult(Len(its) + 1, QualityMetrics(s, fb, cont), improved_path,
                                ImprovementDelta(its, iter, s), cont))

\* mutant: the delta is taken against the first record instead of the previous one
add_iteration_DeltaFromFirst(its, iter, s, fb, improved_path, cont) ==
    Append(its, IterationResult(iter, QualityMetrics(s, fb, cont), improved_path,
                                IF its # <<>> /\ iter > 0
                                THEN Some(s - its[1].metrics.score) ELSE None,
                                cont))

\* mutant: a record with the index of the last one overwrites it
add_iteration_Overwrite(its, iter, s, fb, improved_path, cont) ==
    LET r == IterationResult(iter, QualityMetrics(s, fb, cont), improved_path,
                             ImprovementDelta(its, iter, s), cont) IN
    IF its # <<>> /\ Last(its).iteration = iter
    THEN [its EXCEPT ![Len(its)] = r]
    ELSE Append(its, r)

\* mutant: a call whose index is not the next one is dropped
add_iteration_Enforcing(its, iter, s, fb, improved_path, cont) ==
    IF iter # Len(its) THEN its
    ELSE Append(its, IterationResult(iter, QualityMetrics(s, fb, cont), improved_path,
                                     ImprovementDelta(its, iter, s), cont))

\* lines 60-69: the record is appended unconditionally
add_iteration(its, iter, s, fb, improved_path, cont) ==
    Append(its, IterationResult(iter, QualityMetrics(s, fb, cont), improved_path,
                                ImprovementDelta(its, iter, s), cont))

\* line 90: one row of the summary's "iterations"
SummaryRow(r) ==
    [number |-> r.iteration, score |-> r.metrics.score,
     improvement |-> r.improvement_delta, path |-> r.improved_path]

\* mutant: the baseline record is counted as an iteration
get_summary_CountAll(its) ==
    IF its = <<>> THEN None
    ELSE Some([iterations_count |-> Len(its),
               initial_score |-> its[1].metrics.score,
               final_score |-> Last(its).metrics.score,
               total_improvement |-> Last(its).metrics.score - its[1].metrics.score,
               iterations |-> [i \in 1..Len(its) |-> SummaryRow(its[i])]])

\* lines 71-93, without launch_id, document, path and duration_seconds
get_summary(its) ==
    IF its = <<>> THEN None
    ELSE Some([iterations_count |-> Len(its) - 1,
               initial_score |-> its[1].metrics.score,
               final_score |-> Last(its).metrics.score,
               total_improvement |-> Last(its).metrics.score - its[1].metrics.score,
               iterations |-> [i \in 1..Len(its) |-> SummaryRow(its[i])]])

\* mutant: only the rows of the improvement iterations are written
save_to_file_Trimmed(its) == get_summary(IF its = <<>> THEN its ELSE SubSeq(its, 2, Len(its)))

\* lines 95-99: the summary is written to {doc_id}_tracking.json
save_to_file(its) == get_summary(its)

\* lines 101-109: the summary with status, target_score and max_iterations
\* added is written to {doc_id}_auto_improve_metadata.json
save_metadata(its, st, t, max) ==
    Some([summary |-> get_summary(its), status |-> st, target_score |-> t,
          max_iterations |-> max])

\* --------------------------------------------------- DocumentCrew.auto_improve
\* mutant: a final score equal to the target is not counted as reaching it
FinalStatus_Strict(its, t) ==
    IF Last(its).metrics.score > t THEN "target_reached" ELSE "max_iterations_reached"

\* lines 91-97: the status computed after the loop
FinalStatus(its, t) ==
    LET final_score == Last(its).metrics.score IN
    IF final_score >= t THEN "target_reached" ELSE "max_iterations_reached"

\* mutant: a baseline score equal to the target does not short-circuit
CrewTargetMetOriginal_Strict(s, t) == s > t

\* line 65: if score >= target_score (after the baseline evaluation)
CrewTargetMetOriginal(s, t) == s >= t

\* mutant: the break is missing
CrewTargetReached_Never(s, t) == FALSE

\* line 85: if score >= target_score: break
CrewTargetReached(s, t) == s >= t

\* mutant: range(1, max_iterations + 2)
CrewLoopContinues_Long(n, max) == n <= max + 1

\* mutant: range(1, max_iterations)
CrewLoopContinues_Short(n, max) == n < max

\* line 73: range(1, max_iterations + 1) yields n
CrewLoopContinues(n, max) == n <= max

\* lines 91-100, reached when the loop ends: auto_improve returns
\* (current_doc, tracker, status)
CrewFinish(its, doc) ==
    /\ status' = FinalStatus(its, target_score)
    /\ tracking_file' = save_to_file(its)
    /\ final_doc' = Some(doc)
    /\ pc' = "returned"

\* mutant: the loop keeps working on the document it started with
CrewNextDoc_Stale(cur, improved) == cur

\* line 88: current_doc = improved_doc
CrewNextDoc(cur, improved) == improved

\* mutant: the exception is swallowed and the call is made again
Raise_Retry(call) ==
    /\ calls' = Append(calls, call)
    /\ UNCHANGED <<pc, raised>>

\* a collaborator call raises: the exception leaves the function
Raise(call) ==
    /\ calls' = Append(calls, call)
    /\ pc' = "raised"
    /\ raised' = "CollaboratorError"

\* lines 56-73: baseline evaluation, record 0, the short-circuit
CrewEvaluateInitial ==
    /\ entry = "DocumentCrew.auto_improve"
    /\ pc = "start"
    /\ UNCHANGED <<decoderState, inputs, iter_files, improved_doc, coreState, iterState, callerState, trackerUser>>
    /\ \/ /\ Raise(EvalCall(content, None))
          /\ UNCHANGED <<current_feedback, score, feedback, current_doc, iteration, crewState>>
       \/ \E s \in Scores, fb \in Feedbacks :
            LET its == add_iteration(iterations, 0, s, fb, input_path, None) IN
            /\ calls' = Append(calls, EvalCall(content, <<s, fb>>))
            /\ score' = s
            /\ feedback' = fb
            /\ iterations' = its
            \* line 63: evaluator.save_results(score, feedback, output_dir, f"{doc_name}_initial", content)
            /\ eval_files' = eval_files \cup {<<"initial", s, fb>>}
            /\ UNCHANGED raised
            /\ IF CrewTargetMetOriginal(s, target_score)
               THEN /\ tracking_file' = save_to_file(its)
                    /\ final_doc' = Some(content)
                    /\ status' = "target_met_original"
                    /\ pc' = "returned"
                    /\ UNCHANGED <<current_doc, current_feedback, iteration>>
               ELSE /\ current_doc' = content
                    /\ current_feedback' = fb
                    /\ IF CrewLoopContinues(1, max_iterations)
                       THEN /\ iteration' = 1
                            /\ pc' = "improve"
                            /\ UNCHANGED <<status, final_doc, tracking_file>>
                       ELSE /\ CrewFinish(its, content)
                            /\ UNCHANGED iteration

\* lines 74-77: one Improver call, the improved document saved to iter_path
CrewImprove ==
    /\ entry = "DocumentCrew.auto_improve"
    /\ pc = "improve"
    /\ UNCHANGED <<decoderState, inputs, current_feedback, score, feedback, current_doc, iteration,
                   crewState, coreState, iterState, callerState, trackerUser>>
    /\ \/ /\ Raise(ImproveCall(current_doc, current_feedback, None))
          /\ UNCHANGED <<improved_doc, iter_files>>
       \/ \E d \in ImprovedDocs :
            /\ calls' = Append(calls, ImproveCall(current_doc, current_feedback, Some(d)))
            /\ improved_doc' = d
            /\ iter_files' = iter_files \cup {<<IterPath(iteration), d>>}
            /\ pc' = "evaluate"
            /\ UNCHANGED raised

\* lines 78-100: evaluation of the improved document, its record, the target
\* check, and either the next loop iteration or the end of the function
CrewEvaluate ==
    /\ entry = "DocumentCrew.auto_improve"
    /\ pc = "evaluate"
    /\ UNCHANGED <<decoderState, inputs, iter_files, improved_doc, coreState, iterState, callerState, trackerUser>>
    /\ \/ /\ Raise(EvalCall(improved_doc, None))
          /\ UNCHANGED <<current_feedback, score, feedback, current_doc, iteration, crewState>>
       \/ \E s \in Scores, fb \in Feedbacks :
            LET its == add_iteration(iterations, iteration, s, fb,
                                     Some(IterPath(iteration)), None) IN
            /\ calls' = Append(calls, EvalCall(improved_doc, <<s, fb>>))
            /\ score' = s
            /\ feedback' = fb
            /\ iterations' = its
            /\ UNCHANGED <<raised, eval_files>>
            /\ IF CrewTargetReached(s, target_score)
               THEN \* line 86: break, before current_doc is updated
                    /\ CrewFinish(its, current_doc)
                    /\ UNCHANGED <<current_doc, current_feedback, iteration>>
               ELSE /\ current_doc' = CrewNextDoc(current_doc, improved_doc)
                    /\ current_feedback' = fb
                    /\ IF CrewLoopContinues(iteration + 1, max_iterations)
                       THEN /\ iteration' = iteration + 1
                            /\ pc' = "improve"
                            /\ UNCHANGED <<status, final_doc, tracking_file>>
                       ELSE /\ CrewFinish(its, improved_doc)
                            /\ UNCHANGED iteration

\* ---------------------------------------------------- auto_improve_document
\* line 158: if original_score >= target_score
CoreTargetMetOriginal(s, t) == s >= t

\* mutant: a score equal to the target does not end the loop
CoreTargetReached_Strict(s, t) == s > t

\* line 188: if score >= target_score: break
CoreTargetReached(s, t) == s >= t

\* mutant: while iteration <= max_iterations
CoreLoopContinues_Long(n, max) == n <= max

\* line 162: while iteration < max_iterations
CoreLoopContinues(n, max) == n < max

\* lines 197-204 after the loop; line 198 reads score, which is unbound when
\* the loop body never ran
CoreFinish(loop_ran) ==
    IF loop_ran
    THEN /\ pc' = "returned"
         /\ UNCHANGED raised
    ELSE /\ pc' = "raised"
         /\ raised' = "UnboundLocalError"

\* mutant: the existence checks are missing and a missing file reads as a document
FileNotFound_Never(exists) == FALSE

\* lines 127-128, and read_file (file_utils.py lines 8-9) at line 148:
\* if not os.path.exists(doc_path): raise FileNotFoundError
FileNotFound(exists) == ~exists

\* lines 127-162: the existence check, the evaluation of the original document
\* and the short-circuit
CoreEvaluateOriginal ==
    /\ entry = "auto_improve_document"
    /\ pc = "start"
    /\ UNCHANGED <<decoderState, inputs, iter_files, score, feedback, improved_doc,
                   crewState, iterState, callerState, trackerUser>>
    /\ \/ /\ FileNotFound(path_exists)
          /\ pc' = "raised"
          /\ raised' = "FileNotFoundError"
          /\ UNCHANGED <<calls, current_feedback, current_doc, iteration, coreState>>
       \/ /\ ~FileNotFound(path_exists)
          /\ Raise(EvalCall(content, None))
          /\ final_path' = Some(InputPath)
          /\ UNCHANGED <<current_feedback, current_doc, iteration, original_score, last_score>>
       \/ /\ ~FileNotFound(path_exists)
          /\ \E s \in Scores, fb \in Feedbacks :
               /\ calls' = Append(calls, EvalCall(content, <<s, fb>>))
               /\ final_path' = Some(InputPath)
               /\ original_score' = s
               /\ current_doc' = content
               /\ current_feedback' = fb
               /\ last_score' = s
               /\ IF CoreTargetMetOriginal(s, target_score)
                  THEN /\ iteration' = 0
                       /\ pc' = "returned"
                       /\ UNCHANGED raised
                  ELSE IF CoreLoopContinues(0, max_iterations)
                       THEN /\ iteration' = 1
                            /\ pc' = "improve"
                            /\ UNCHANGED raised
                       ELSE /\ iteration' = 0
                            /\ CoreFinish(FALSE)

\* mutant: the returned path stays the path of the input document
CoreFinalPath_Kept(prev, improved_path) == prev

\* line 177: final_path = improved_path
CoreFinalPath(prev, improved_path) == Some(improved_path)

\* lines 163-177: improve_document, the improved document written to
\* generate_improved_path(doc_path, iteration)
CoreImprove ==
    /\ entry = "auto_improve_document"
    /\ pc = "improve"
    /\ UNCHANGED <<decoderState, inputs, current_feedback, score, feedback, current_doc, iteration,
                   crewState, original_score, last_score, iterState, callerState, trackerUser>>
    /\ \/ /\ Raise(ImproveCall(current_doc, current_feedback, None))
          /\ UNCHANGED <<improved_doc, iter_files, final_path>>
       \/ \E d \in ImprovedDocs :
            /\ calls' = Append(calls, ImproveCall(current_doc, current_feedback, Some(d)))
            /\ improved_doc' = d
            /\ iter_files' = iter_files \cup {<<IterPath(iteration), d>>}
            /\ final_path' = CoreFinalPath(final_path, IterPath(iteration))
            /\ pc' = "evaluate"
            /\ UNCHANGED raised

\* lines 180-204: evaluate_document on the improved document, the target check,
\* and either the next loop iteration or the end of the function
CoreEvaluate ==
    /\ entry = "auto_improve_document"
    /\ pc = "evaluate"
    /\ UNCHANGED <<decoderState, inputs, iter_files, improved_doc, crewState, original_score,
                   final_path, iterState, callerState, trackerUser>>
    /\ \/ /\ Raise(EvalCall(improved_doc, None))
          /\ UNCHANGED <<current_feedback, score, feedback, current_doc, iteration, last_score>>
       \/ \E s \in Scores, fb \in Feedbacks :
            /\ calls' = Append(calls, EvalCall(improved_doc, <<s, fb>>))
            /\ score' = s
            /\ feedback' = fb
            /\ IF CoreTargetReached(s, target_score)
               THEN /\ CoreFinish(TRUE)
                    /\ UNCHANGED <<current_doc, current_feedback, last_score, iteration>>
               ELSE /\ current_doc' = improved_doc
                    /\ current_feedback' = fb
                    /\ last_score' = s
                    /\ IF CoreLoopContinues(iteration, max_iterations)
                       THEN /\ iteration' = iteration + 1
                            /\ pc' = "improve"
                            /\ UNCHANGED raised
                       ELSE /\ CoreFinish(TRUE)
                            /\ UNCHANGED iteration

\* -------------------------------------------------------- DocumentIterator
\* lines 45 and 64: if score >= self.target_score: raise StopIteration
IterTargetMet(s, t) == s >= t

\* mutant: one improvement iteration too many
IterContinues_Extra(count, max) == count <= max + 1

\* line 50: elif self.iteration_count <= self.max_iterations
IterContinues(count, max) == count <= max

\* the caller's bookkeeping for one more __next__ call
NextCalled ==
    extra_next' = IF stops > 0 THEN extra_next + 1 ELSE extra_next

StopIteration ==
    /\ stops' = stops + 1
    /\ last_outcome' = "StopIteration"
    /\ UNCHANGED <<yielded, pc, raised>>

Yield(t) ==
    /\ yielded' = Append(yielded, t)
    /\ last_outcome' = "yield"
    /\ UNCHANGED <<stops, pc, raised>>

\* mutant: the iteration is counted before its calls are made
NextRaises_Counted(log) ==
    /\ calls' = log
    /\ pc' = "raised"
    /\ raised' = "CollaboratorError"
    /\ last_outcome' = "raised"
    /\ iteration_count' = iteration_count + 1
    /\ UNCHANGED <<yielded, stops, current_feedback, current_content, scores, contents, feedbacks>>

\* lines 39 and 52-53: a collaborator call raises before any field is assigned
NextRaises(log) ==
    /\ calls' = log
    /\ pc' = "raised"
    /\ raised' = "CollaboratorError"
    /\ last_outcome' = "raised"
    /\ UNCHANGED <<yielded, stops, current_feedback, iterState>>

\* lines 35-70: one call of __next__. A caller driving the iterator with a for
\* loop stops at the first StopIteration and at any exception; other callers
\* may call __next__ again after a StopIteration.
IterNext ==
    /\ entry = "DocumentIterator"
    /\ pc = "start"
    /\ stops = 0 \/ extra_next < MaxExtraNext
    /\ NextCalled
    /\ UNCHANGED <<decoderState, inputs, iter_files, loopLocals, crewState, coreState, trackerUser>>
    /\ \/ /\ iteration_count = 0
          /\ \/ NextRaises(Append(calls, EvalCall(content, None)))
             \/ \E s \in Scores, fb \in Feedbacks :
                  /\ calls' = Append(calls, EvalCall(content, <<s, fb>>))
                  /\ scores' = Append(scores, s)
                  /\ feedbacks' = Append(feedbacks, fb)
                  /\ current_feedback' = fb
                  /\ iteration_count' = iteration_count + 1
                  /\ UNCHANGED <<current_content, contents>>
                  /\ IF IterTargetMet(s, target_score)
                     THEN StopIteration
                     ELSE Yield(<<0, content, s, fb>>)
       \/ /\ iteration_count # 0
          /\ IterContinues(iteration_count, max_iterations)
          /\ \/ NextRaises(Append(calls, ImproveCall(current_content, current_feedback, None)))
             \/ \E d \in ImprovedDocs :
                  NextRaises(calls \o <<ImproveCall(current_content, current_feedback, Some(d)),
                                        EvalCall(d, None)>>)
             \/ \E d \in ImprovedDocs, s \in Scores, fb \in Feedbacks :
                  /\ calls' = calls \o <<ImproveCall(current_content, current_feedback, Some(d)),
                                         EvalCall(d, <<s, fb>>)>>
                  /\ current_content' = d
                  /\ current_feedback' = fb
                  /\ contents' = Append(contents, d)
                  /\ scores' = Append(scores, s)
                  /\ feedbacks' = Append(feedbacks, fb)
                  /\ iteration_count' = iteration_count + 1
                  /\ IF IterTargetMet(s, target_score)
                     THEN StopIteration
                     ELSE Yield(<<iteration_count, d, s, fb>>)
       \/ /\ iteration_count # 0
          /\ ~IterContinues(iteration_count, max_iterations)
          /\ StopIteration
          /\ UNCHANGED <<calls, current_feedback, iterState>>

\* lines 72-84
get_final_content == IF Len(contents) > 1 THEN Last(contents) ELSE content
\* mutant: the baseline score is reported as the final one
get_final_score_First == IF scores # <<>> THEN scores[1] ELSE 0
get_final_score == IF scores # <<>> THEN Last(scores) ELSE 0
get_improvement_delta == IF Len(scores) > 1 THEN Last(scores) - scores[1] ELSE 0

\* ------------------------------------------- IterationTracker used directly
\* scores a direct user passes to add_iteration
SampleScores == {0, MaxScore}

\* one add_iteration call with arbitrary arguments
TrackerAdd ==
    /\ entry = "IterationTracker"
    /\ Len(iterations) < MaxAdds
    /\ \E n \in 0..MaxIndex, s \in SampleScores, c \in {None, Some("better draft")} :
         /\ iterations' = add_iteration(iterations, n, s, "unclear", None, c)
         /\ added' = Append(added, n)
    /\ UNCHANGED <<decoderState, inputs, pc, raised, calls, iter_files, current_feedback, loopLocals,
                   status, final_doc, tracking_file, eval_files, metadata_file,
                   coreState, iterState, callerState>>

\* a direct user saves the tracking file
TrackerSaveToFile ==
    /\ entry = "IterationTracker"
    /\ tracking_file' = save_to_file(iterations)
    /\ UNCHANGED <<decoderState, inputs, pc, raised, calls, iter_files, current_feedback, loopLocals,
                   iterations, status, final_doc, eval_files, trackerUser,
                   coreState, iterState, callerState>>

\* a direct user saves the metadata file
TrackerSaveMetadata ==
    /\ entry = "IterationTracker"
    /\ \E st \in {"target_reached", "max_iterations_reached"} :
         metadata_file' = save_metadata(iterations, st, MaxScore, MaxIterations)
    /\ UNCHANGED <<decoderState, inputs, pc, raised, calls, iter_files, current_feedback, loopLocals,
                   crewState, added, coreState, iterState, callerState>>

\* ------------------------------------------- the Evaluator's response decoders
\* One line of a response, by what the decoders can tell apart:
\*   "text"       any other line
\*   "Score:"     a line starting with "Score:", its float when it has one
\*   "Feedback:"  a line starting with "Feedback:"
\*   "json"       a line holding a JSON object with a "feedback" key, and its
\*                "score" when it has a numeric one
\*   "{"          a line starting with "{" that is not valid JSON
Line(kind, s) == [kind |-> kind, score |-> s]
ResponseLines ==
    {Line("text", None), Line("Feedback:", None), Line("{", None),
     Line("Score:", None), Line("Score:", Some(1)), Line("Score:", Some(2)),
     Line("json", None), Line("json", Some(1))}
Responses == UNION {[1..n -> ResponseLines] : n \in 0..MaxLines}

\* what a decoder returns, or the exception it raises
Returned(s, fb) == [raised |-> "", score |-> s, feedback |-> fb]
Raised(e) == [raised |-> e, score |-> UnboundNum, feedback |-> <<>>]

\* line.strip().startswith('{')
StartsWithBrace(l) == l.kind \in {"json", "{"}

\* agents/base.py lines 48-55: the first line starting with '{' is decoded as
\* JSON and its "score" and "feedback" are returned
parse_eval(resp) ==
    LET found == {i \in 1..Len(resp) : StartsWithBrace(resp[i])} IN
    IF found = {} THEN Raised("ValueError")
    ELSE LET json_line == resp[CHOOSE i \in found : \A j \in found : i <= j] IN
         IF json_line.kind = "{" THEN Raised("JSONDecodeError")
         ELSE IF json_line.score = None THEN Raised("KeyError")
         ELSE Returned(json_line.score[1], <<"unclear">>)

\* agents/__init__.py lines 45-59: the loop over the lines, from line i on
RECURSIVE ScanLines(_, _, _, _)
ScanLines(resp, i, s, feedback_lines) ==
    IF i > Len(resp) THEN Returned(s, feedback_lines)
    ELSE IF resp[i].kind = "Score:"
         THEN ScanLines(resp, i + 1,
                        IF resp[i].score # None THEN resp[i].score[1] ELSE 0,
                        feedback_lines)
    ELSE IF resp[i].kind = "Feedback:"
         THEN ScanLines(resp, i + 1, s, Append(feedback_lines, "unclear"))
    ELSE ScanLines(resp, i + 1, s,
                   IF feedback_lines # <<>> THEN Append(feedback_lines, resp[i].kind)
                   ELSE feedback_lines)

\* agents/__init__.py lines 36-61: score starts at 0.0 and is never required
parse_agent_response(resp) == ScanLines(resp, 1, 0, <<>>)

\* both decoders applied to the response
DecodeResponse ==
    /\ entry = "parse_eval"
    /\ pc = "start"
    /\ decoded' = Some([eval |-> parse_eval(response),
                        agent |-> parse_agent_response(response)])
    /\ pc' = "returned"
    /\ UNCHANGED <<inputs, response, raised, calls, iter_files, current_feedback, loopLocals,
                   crewState, coreState, iterState, callerState, trackerUser>>

\* --------------------------------------------- the Improver's response decoder
\* An Improver response is a sequence of characters: "a" stands for any
\* character that is not a brace, a double quote or a newline; a JSON object
\* {"improved_content": "..."} is written as the brace, the quoted string and
\* the closing brace.
ContentChars == {"a", "{", "}"}
Contents == UNION {[1..n -> ContentChars] : n \in 0..MaxContentLen}
OneLineObject(c) == <<"{", "\"">> \o c \o <<"\"", "}">>
MultiLineObject(c) == <<"{", "\n", "\"">> \o c \o <<"\"", "\n", "}">>
UnclosedObject(c) == <<"{", "\"">> \o c \o <<"\"">>
Prefixes == {<<>>, <<"a", "\n">>, <<"a">>}
Suffixes == {<<>>, <<"\n", "a">>, <<"}">>}
ImproverResponses ==
    {<<>>, <<"a">>} \cup
    {pre \o body \o post :
        pre \in Prefixes,
        body \in UNION {{OneLineObject(c), MultiLineObject(c), UnclosedObject(c)} : c \in Contents},
        post \in Suffixes}

ImproveReturned(c) == [raised |-> "", improved_content |-> c]
ImproveRaised(e) == [raised |-> e, improved_content |-> <<>>]

\* json.loads on an object with one string member: whitespace outside the
\* string is skipped, the string runs from one double quote to the next
RECURSIVE Unspaced(_, _, _)
Unspaced(cs, i, in_string) ==
    IF i > Len(cs) THEN <<>>
    ELSE IF cs[i] = "\n" /\ ~in_string THEN Unspaced(cs, i + 1, in_string)
    ELSE <<cs[i]>> \o Unspaced(cs, i + 1, IF cs[i] = "\"" THEN ~in_string ELSE in_string)
json_loads(json_str) ==
    LET t == Unspaced(json_str, 1, FALSE) IN
    IF /\ Len(t) >= 4
       /\ t[1] = "{" /\ t[2] = "\""
       /\ t[Len(t) - 1] = "\"" /\ t[Len(t)] = "}"
       /\ \A k \in 3..(Len(t) - 2) : t[k] \notin {"\"", "\n"}
    THEN ImproveReturned(SubSeq(t, 3, Len(t) - 2))
    ELSE ImproveRaised("JSONDecodeError")

\* agents/base.py lines 61-64: the lines that start with '{', as positions of
\* their first character
BraceLines(resp) ==
    {p \in 1..Len(resp) : resp[p] = "{" /\ (p = 1 \/ resp[p - 1] = "\n")}

\* lines 73-82: the position after which brace_count is back at 0, or 0
RECURSIVE BraceEnd(_, _, _)
BraceEnd(json_content, i, brace_count) ==
    IF i > Len(json_content) THEN 0
    ELSE IF json_content[i] = "{" THEN BraceEnd(json_content, i + 1, brace_count + 1)
    ELSE IF json_content[i] = "}"
         THEN (IF brace_count - 1 = 0 THEN i
               ELSE BraceEnd(json_content, i + 1, brace_count - 1))
    ELSE BraceEnd(json_content, i + 1, brace_count)

\* agents/base.py lines 58-92
parse_improve(resp) ==
    LET found == BraceLines(resp) IN
    IF found = {} THEN ImproveRaised("ValueError")
    ELSE LET json_start == CHOOSE p \in found : \A q \in found : p <= q
             json_content == SubSeq(resp, json_start, Len(resp))
             json_end == BraceEnd(json_content, 1, 0)
         IN IF json_end = 0 THEN ImproveRaised("ValueError")
            ELSE json_loads(SubSeq(json_content, 1, json_end))

DecodeImprovement ==
    /\ entry = "parse_improve"
    /\ pc = "start"
    /\ decoded' = Some(parse_improve(response))
    /\ pc' = "returned"
    /\ UNCHANGED <<inputs, response, raised, calls, iter_files, current_feedback, loopLocals,
                   crewState, coreState, iterState, callerState, trackerUser>>

\* ------------------------------------------------------------ specification
Init ==
    /\ entry \in Entries
    /\ content \in (IF entry \in {"DocumentCrew.auto_improve", "auto_improve_document"}
                    THEN InputDocs ELSE InputDocs \ {""})
    /\ input_path \in (IF entry = "DocumentCrew.auto_improve"
                       THEN {None, Some(InputPath)} ELSE {None})
    /\ path_exists \in (IF entry = "auto_improve_document" THEN BOOLEAN ELSE {TRUE})
    /\ max_iterations \in (IF entry \in {"IterationTracker", "parse_eval", "parse_improve"}
                           THEN {0} ELSE 0..MaxIterations)
    /\ target_score \in (IF entry \in {"IterationTracker", "parse_eval", "parse_improve"}
                         THEN {0} ELSE Scores)
    /\ pc = "start"
    /\ raised = ""
    /\ calls = <<>>
    /\ iter_files = {}
    /\ current_feedback = IF entry = "DocumentIterator" THEN "" ELSE UnboundStr
    /\ score = UnboundNum
    /\ feedback = UnboundStr
    /\ current_doc = UnboundStr
    /\ improved_doc = UnboundStr
    /\ iteration = 0
    /\ iterations = <<>>
    /\ status = UnboundStr
    /\ final_doc = None
    /\ tracking_file = None
    /\ eval_files = {}
    /\ original_score = UnboundNum
    /\ last_score = UnboundNum
    /\ final_path = None
    /\ current_content = content
    /\ iteration_count = 0
    /\ scores = <<>>
    /\ contents = <<content>>
    /\ feedbacks = <<>>
    /\ yielded = <<>>
    /\ stops = 0
    /\ extra_next = 0
    /\ last_outcome = "none"
    /\ added = <<>>
    /\ metadata_file = None
    /\ response \in (IF entry = "parse_eval" THEN Responses
                     ELSE IF entry = "parse_improve" THEN ImproverResponses
                     ELSE {<<>>})
    /\ decoded = None

Next ==
    \/ CrewEvaluateInitial
    \/ CrewImprove
    \/ CrewEvaluate
    \/ CoreEvaluateOriginal
    \/ CoreImprove
    \/ CoreEvaluate
    \/ IterNext
    \/ TrackerAdd
    \/ TrackerSaveToFile
    \/ TrackerSaveMetadata
    \/ DecodeResponse
    \/ DecodeImprovement

Spec == Init /\ [][Next]_vars

\* DocumentCrew.auto_improve alone; the function runs until it returns or
\* raises: a statement that can execute does execute
CrewInit == Init /\ entry = "DocumentCrew.auto_improve"
CrewNext ==
    \/ CrewEvaluateInitial
    \/ CrewImprove
    \/ CrewEvaluate
CrewFairSpec == CrewInit /\ [][CrewNext]_vars /\ WF_vars(CrewNext)

\* ------------------------------------------------------------------ claims
Crew == entry = "DocumentCrew.auto_improve"
Core == entry = "auto_improve_document"
Iter == entry = "DocumentIterator"
Tracker == entry = "IterationTracker"

\* the Evaluator calls that returned, as positions of the call log
Evaluated == {i \in 1..Len(calls) : calls[i].op = "evaluate" /\ calls[i].result # None}
ScoreOf(i) == calls[i].result[1]
BaselineScored == calls # <<>> /\ calls[1].result # None
\* what the Improver returned last
ImproverOutputs == SelectSeq(calls, LAMBDA c : c.op = "improve" /\ c.result # None)

\* C1: in DocumentCrew.auto_improve, when the baseline evaluation returns a
\* score >= target_score the run has ended with exactly one record (iteration
\* 0), status target_met_original, the unmodified input as the returned
\* document and no Improver call.
C1_BaselineShortCircuit ==
    (Crew /\ BaselineScored /\ ScoreOf(1) >= target_score)
        => /\ pc = "returned"
           /\ Len(iterations) = 1
           /\ iterations[1].iteration = 0
           /\ status = "target_met_original"
           /\ final_doc = Some(content)
           /\ ImproverCalls = 0
           /\ Len(calls) = 1

C1_Witness ==
    Crew /\ BaselineScored /\ ScoreOf(1) = target_score /\ max_iterations >= 1
         /\ pc = "returned"

\* C2: with max_iterations >= 1, a run of any of the three loops
\* (DocumentIterator driven until its first StopIteration) never makes more
\* than max_iterations Improver calls.
C2_ImproverCallsBounded ==
    (max_iterations >= 1 /\ (Crew \/ Core \/ (Iter /\ extra_next = 0)))
        => ImproverCalls <= max_iterations

C2_Witness ==
    Iter /\ extra_next = 0 /\ stops = 1 /\ max_iterations >= 2
         /\ ImproverCalls = max_iterations
         /\ \A i \in Evaluated : ScoreOf(i) < target_score

\* C3: in DocumentCrew.auto_improve, once a record with score >= target_score
\* has been appended no further Improver or Evaluator call is made.
C3_NoCallAfterTarget ==
    [][(Crew /\ \E i \in 1..Len(iterations) : iterations[i].metrics.score >= target_score)
          => calls' = calls]_vars

C3_Witness ==
    Crew /\ pc = "returned" /\ Len(iterations) = 2 /\ max_iterations >= 2
         /\ Last(iterations).metrics.score >= target_score

\* C4: the document returned by DocumentCrew.auto_improve is the content the
\* last appended record's score was computed for: the last Improver output
\* when an improvement iteration ran, the original input otherwise.
C4_ReturnsLastEvaluated ==
    (Crew /\ pc = "returned")
        => final_doc = Some(IF ImproverOutputs # <<>>
                            THEN Last(ImproverOutputs).result[1]
                            ELSE content)

\* C5: the terminal status of DocumentCrew.auto_improve is target_reached iff
\* the last record has index > 0 and score >= target_score.
C5_TargetReachedIff ==
    (Crew /\ pc = "returned")
        => (status = "target_reached"
              <=> (Last(iterations).iteration > 0
                   /\ Last(iterations).metrics.score >= target_score))

C5_Witness ==
    Crew /\ pc = "returned" /\ status = "target_reached"
         /\ Last(iterations).metrics.score = target_score

\* C6: the terminal status of DocumentCrew.auto_improve is
\* max_iterations_reached iff the last record's score is < target_score and
\* its index equals max_iterations.
C6_MaxIterationsReachedIff ==
    (Crew /\ pc = "returned")
        => (status = "max_iterations_reached"
              <=> (Last(iterations).metrics.score < target_score
                   /\ Last(iterations).iteration = max_iterations))

C6_Witness ==
    Crew /\ pc = "returned" /\ status = "max_iterations_reached"
         /\ max_iterations = 2 /\ Len(iterations) = 3

\* C7: at every point of a run of DocumentCrew.auto_improve the indices of
\* tracker.iterations are 0, 1, ..., k in order, one record per completed
\* Evaluator call.
C7_ContiguousIndices ==
    Crew => /\ \A i \in 1..Len(iterations) : iterations[i].iteration = i - 1
            /\ Len(iterations) = CompletedEvaluations

C7_Witness ==
    Crew /\ Len(iterations) = 3 /\ CompletedEvaluations = 3

\* C8: in a run of DocumentCrew.auto_improve record 0 has improvement_delta
\* None and every record n > 0 has improvement_delta equal to its score minus
\* the score of record n-1.
C8_Deltas ==
    Crew => \A i \in 1..Len(iterations) :
                iterations[i].improvement_delta =
                    IF i = 1 THEN None
                    ELSE Some(iterations[i].metrics.score - iterations[i - 1].metrics.score)

C8_Witness ==
    Crew /\ Len(iterations) = 3
         /\ iterations[2].improvement_delta = Some(1)
         /\ iterations[3].improvement_delta = Some(-1)

\* C9: a score exactly equal to target_score counts as meeting the target in
\* all three loops: the evaluation that returns it is the last collaborator
\* call of the run (no Improver call after the baseline, no iteration n+1),
\* and the run ends as a met target.
C9_EqualCountsAsMet ==
    \A i \in Evaluated :
        (ScoreOf(i) = target_score /\ (Crew \/ Core \/ (Iter /\ extra_next = 0)))
            => /\ i = Len(calls)
               /\ Crew => (pc = "returned"
                           /\ status = (IF i = 1 THEN "target_met_original"
                                        ELSE "target_reached"))
               /\ Core => pc = "returned"
               /\ Iter => (stops = 1 /\ last_outcome = "StopIteration")

C9_Witness ==
    /\ Core
    /\ pc = "returned"
    /\ Len(calls) = 3
    /\ max_iterations >= 2
    /\ ScoreOf(3) = target_score

\* C10 as stated: after any sequence of add_iteration calls the stored indices
\* are 0 for the first record and previous index + 1 for every later one.
C10_TrackerEnforcesOrder ==
    Tracker => \A i \in 1..Len(iterations) : iterations[i].iteration = i - 1

\* C10 amended: add_iteration appends every call's record with the iteration
\* argument stored as given; it performs no ordering check.
C10_TrackerStoresArguments ==
    Tracker => /\ Len(iterations) = Len(added)
               /\ \A i \in 1..Len(iterations) : iterations[i].iteration = added[i]

C10_Witness ==
    Tracker /\ Len(iterations) = 2
            /\ iterations[1].iteration = 2 /\ iterations[2].iteration = 0

\* C11 as stated: an empty input document is rejected before any Evaluator or
\* Improver call and before any record is created, in DocumentCrew.auto_improve
\* and in auto_improve_document.
C11_EmptyInputRejected ==
    ((Crew \/ (Core /\ path_exists)) /\ content = "")
        => /\ calls = <<>>
           /\ iterations = <<>>
           /\ pc \in {"start", "raised"}

\* C12: when the source document path does not exist auto_improve_document
\* raises FileNotFoundError before any collaborator call and before any
\* output file is written.
C12_MissingFileFailsFirst ==
    (Core /\ ~path_exists)
        => /\ calls = <<>>
           /\ iter_files = {}
           /\ pc \in {"start", "raised"}
           /\ pc = "raised" => raised = "FileNotFoundError"

C12_Witness ==
    Core /\ ~path_exists /\ pc = "raised" /\ raised = "FileNotFoundError"

\* the collaborator calls that raised, as positions of the call log
Failed == {i \in 1..Len(calls) : calls[i].result = None}

\* C13: when an Evaluator or Improver call raises during
\* DocumentCrew.auto_improve the exception reaches the caller, the failed call
\* is not retried, no further collaborator call is made and no terminal status
\* is returned.
C13_FailurePropagates ==
    (Crew /\ Failed # {})
        => /\ Failed = {Len(calls)}
           /\ pc = "raised"
           /\ raised = "CollaboratorError"
           /\ status = UnboundStr
           /\ final_doc = None

C13_Witness ==
    Crew /\ Len(calls) = 3 /\ Failed = {3} /\ pc = "raised"

\* what can be read back from disk: <<iteration, score>> from the initial
\* evaluation results and from the rows of the tracking file, and
\* <<iteration, feedback>> from the initial evaluation results (the tracking
\* file's rows hold no feedback)
PersistedScores ==
    {<<0, f[2]>> : f \in {g \in eval_files : g[1] = "initial"}}
    \cup (IF tracking_file = None THEN {}
          ELSE {<<r.number, r.score>> :
                    r \in {tracking_file[1].iterations[i] :
                               i \in 1..Len(tracking_file[1].iterations)}})
PersistedFeedback ==
    {<<0, f[3]>> : f \in {g \in eval_files : g[1] = "initial"}}

\* C14 as stated: if a collaborator call fails during improvement iteration n
\* of DocumentCrew.auto_improve, the records of iterations 0 .. n-1 with their
\* scores and feedback have been persisted.
C14_CompletedRecordsPersisted ==
    (Crew /\ pc = "raised")
        => \A i \in 1..Len(iterations) :
              /\ <<iterations[i].iteration, iterations[i].metrics.score>> \in PersistedScores
              /\ <<iterations[i].iteration, iterations[i].metrics.feedback>> \in PersistedFeedback

Decoders == entry = "parse_eval"
\* the response holds a score in the format the decoder reads
HasJsonScore == \E i \in 1..Len(response) : response[i].kind = "json" /\ response[i].score # None
HasScoreLine == \E i \in 1..Len(response) : response[i].kind = "Score:" /\ response[i].score # None

\* C15 as stated: every response decoder of the Evaluator raises for a
\* response without a parseable score and never returns a default score.
C15_DecodersFailLoudly ==
    (Decoders /\ decoded # None)
        => /\ ~HasJsonScore => decoded[1].eval.raised # ""
           /\ ~HasScoreLine => decoded[1].agent.raised # ""

\* C16 as stated: every record of a run of DocumentCrew.auto_improve carries
\* the content snapshot of the document that was evaluated for it (the i-th
\* record belongs to the i-th Evaluator call, the call at position 2i - 1).
C16_RecordsCarryContent ==
    Crew => \A i \in 1..Len(iterations) :
                iterations[i].content = Some(calls[2 * i - 1].doc)

\* C17: in all three loops the calls alternate Evaluator, Improver,
\* Evaluator, ... starting with the Evaluator on the original document; each
\* Improver call receives the document just evaluated (the previous Improver
\* output, the original for the first) together with the feedback returned on
\* it, and the following Evaluator call receives that Improver call's output.
C17_CallChain ==
    (Crew \/ Core \/ Iter)
        => \A i \in 1..Len(calls) :
              /\ calls[i].op = (IF i % 2 = 1 THEN "evaluate" ELSE "improve")
              /\ i = 1 => calls[i].doc = content
              /\ (i > 1 /\ i % 2 = 1) => calls[i].doc = calls[i - 1].result[1]
              /\ i % 2 = 0 => /\ calls[i].doc = calls[i - 1].doc
                              /\ calls[i].feedback = calls[i - 1].result[2]

\* a second Improver call on a document that differs from the original,
\* followed by its evaluation
C17_Witness ==
    /\ Crew
    /\ Len(calls) = 5
    /\ calls[4].doc # content
    /\ calls[5].result # None

TerminalStatuses == {"target_met_original", "target_reached", "max_iterations_reached"}

\* C18: a run of DocumentCrew.auto_improve with max_iterations >= 1 in which
\* every collaborator call returns ends in one of the three terminal statuses
\* after at most max_iterations + 1 Evaluator calls.
C18_Terminates ==
    (Crew /\ max_iterations >= 1)
        => <>(\/ Failed # {}
              \/ /\ pc = "returned"
                 /\ status \in TerminalStatuses
                 /\ EvaluatorCalls <= max_iterations + 1)

C18_Witness ==
    /\ Crew
    /\ max_iterations = MaxIterations
    /\ Failed = {}
    /\ pc = "returned"
    /\ status = "max_iterations_reached"
    /\ EvaluatorCalls = max_iterations + 1

\* The loop as one algorithm: what a call log says about the run so far.
\* A log is complete when its last call failed, or when it ends with an
\* evaluation that met the target or followed the last permitted improvement.
Complete(log) ==
    /\ log # <<>>
    /\ \/ Last(log).result = None
       \/ /\ Last(log).op = "evaluate"
          /\ \/ Last(log).result[1] >= target_score
             \/ CountOp(log, "improve") = max_iterations
\* the scores the Evaluator returned, in call order
RECURSIVE EvalScores(_)
EvalScores(log) ==
    IF log = <<>> THEN <<>>
    ELSE LET rest == EvalScores(SubSeq(log, 1, Len(log) - 1)) IN
         IF Last(log).op = "evaluate" /\ Last(log).result # None
         THEN Append(rest, Last(log).result[1]) ELSE rest
RECURSIVE RecordScores(_)
RecordScores(its) ==
    IF its = <<>> THEN <<>>
    ELSE Append(RecordScores(SubSeq(its, 1, Len(its) - 1)), Last(its).metrics.score)
\* the run is over: the function returned or raised, the iterator raised
\* its first StopIteration or an exception
RunOver ==
    \/ (Crew \/ Core) /\ pc \in {"returned", "raised"}
    \/ Iter /\ (stops > 0 \/ pc = "raised")

\* C19: for max_iterations >= 1 the three loops are one algorithm. Together
\* with the call chain of C17, which fixes every call's arguments from the
\* responses before it, each loop makes a next call exactly as long as its
\* log is not complete, so equal responses give equal logs; and the scores
\* each loop keeps are the scores of its log.
C19_SameAlgorithm ==
    ((Crew \/ (Core /\ path_exists) \/ (Iter /\ extra_next = 0)) /\ max_iterations >= 1)
        => /\ C17_CallChain
           /\ \A n \in 1..(Len(calls) - 1) : ~Complete(SubSeq(calls, 1, n))
           /\ RunOver => Complete(calls)
           /\ Crew => RecordScores(iterations) = EvalScores(calls)
           /\ Iter => scores = EvalScores(calls)
           /\ (Core /\ calls # <<>> /\ Last(calls).result # None /\ Last(calls).op = "evaluate")
                 => /\ original_score = EvalScores(calls)[1]
                    /\ Len(calls) > 1 => score = Last(EvalScores(calls))

\* auto_improve_document returns after using all its improvement iterations
C19_Witness ==
    /\ Core
    /\ max_iterations = MaxIterations
    /\ pc = "returned"
    /\ ImproverCalls = max_iterations
    /\ Last(calls).result[1] < target_score

\* C20: get_summary has a value for every record sequence a tracker can
\* hold, the empty one included (an empty summary), and with only the
\* baseline record it reports final_score = initial_score,
\* total_improvement = 0 and iterations_count = 0.
C20_SummaryAtAnyPoint ==
    (Crew \/ Tracker)
        => LET summary == get_summary(iterations) IN
           /\ iterations = <<>> => summary = None
           /\ iterations # <<>> =>
                 /\ summary # None
                 /\ Len(summary[1].iterations) = Len(iterations)
           /\ Len(iterations) = 1 =>
                 /\ summary[1].final_score = summary[1].initial_score
                 /\ summary[1].total_improvement = 0
                 /\ summary[1].iterations_count = 0
           /\ (Crew /\ pc = "returned") => tracking_file = summary

\* the summary saved by a run that stopped at the baseline record
C20_Witness ==
    /\ Crew
    /\ status = "target_met_original"
    /\ Len(iterations) = 1
    /\ tracking_file = get_summary(iterations)
    /\ tracking_file[1].iterations_count = 0

\* C21: the record sequence is append-only: every step that changes it (each
\* one is a single add_iteration call) adds exactly one record at the end and
\* leaves the records before it, with all their fields and their order, as
\* they were.
C21_AppendOnly ==
    [][((Crew \/ Tracker) /\ iterations' # iterations)
          => /\ Len(iterations') = Len(iterations) + 1
             /\ SubSeq(iterations', 1, Len(iterations)) = iterations]_vars

\* a record whose index repeats the index of the record before it
C21_Witness ==
    /\ Tracker
    /\ Len(iterations) = 2
    /\ iterations[2].iteration = iterations[1].iteration
    /\ iterations[2].metrics.score # iterations[1].metrics.score

\* after any sequence of add_iteration calls the summary reports the first
\* record's score, the last record's score, their difference and the number
\* of records minus one; the saved files hold the summary of the records at
\* the time of saving
SummaryDerived ==
    (Tracker /\ iterations # <<>>)
        => LET summary == get_summary(iterations)[1] IN
           /\ summary.initial_score = iterations[1].metrics.score
           /\ summary.final_score = iterations[Len(iterations)].metrics.score
           /\ summary.total_improvement = summary.final_score - summary.initial_score
           /\ summary.iterations_count = Len(iterations) - 1
           /\ \A file \in {tracking_file} \cup
                          (IF metadata_file = None THEN {} ELSE {metadata_file[1].summary}) :
                 file # None
                    => \E n \in 1..Len(iterations) :
                          /\ file = get_summary(SubSeq(iterations, 1, n))
                          /\ file[1].iterations_count = n - 1
                          /\ Len(file[1].iterations) = n

\* C22: the summary is derived from the record sequence alone (initial_score,
\* final_score, total_improvement and iterations_count as computed from the
\* first and last record and the number of records), and get_summary,
\* save_to_file and save_metadata, which adds status, target_score and
\* max_iterations to the summary, leave the record sequence unchanged.
C22_SummaryPurelyDerived ==
    /\ []SummaryDerived
    /\ [][(Tracker /\ (tracking_file' # tracking_file \/ metadata_file' # metadata_file))
             => iterations' = iterations]_vars

\* both files saved after the second of two records with different scores
C22_Witness ==
    /\ Tracker
    /\ Len(iterations) = 2
    /\ iterations[1].metrics.score # iterations[2].metrics.score
    /\ tracking_file = get_summary(iterations)
    /\ metadata_file # None
    /\ metadata_file[1].summary = get_summary(iterations)
    /\ metadata_file[1].status = "target_reached"

\* C23 as stated: a DocumentIterator yields one tuple (iteration_number,
\* content, score, feedback) for each iteration it performs, numbered 0, 1,
\* 2, ... in order, the iteration whose score meets the target included.
C23_YieldsEveryIteration ==
    (Iter /\ extra_next = 0)
        => /\ Len(yielded) = Len(scores)
           /\ \A i \in 1..Len(yielded) :
                 yielded[i] = <<i - 1, contents[i], scores[i], feedbacks[i]>>

\* C24 as stated: once __next__ has raised StopIteration, every later
\* __next__ call raises StopIteration again, makes no Evaluator or Improver
\* call and leaves scores, contents and feedbacks unchanged.
C24_StopIsFinal ==
    [][(Iter /\ stops > 0)
          => /\ stops' = stops + 1
             /\ calls' = calls
             /\ scores' = scores
             /\ contents' = contents
             /\ feedbacks' = feedbacks]_vars

\* C25: a __next__ call in which the Evaluator or the Improver raises leaves
\* iteration_count, current_content, current_feedback, scores, contents and
\* feedbacks exactly as they were before the call.
C25_FailedNextRecordsNothing ==
    [][(Iter /\ Failed = {} /\ Failed' # {})
          => /\ iteration_count' = iteration_count
             /\ current_content' = current_content
             /\ current_feedback' = current_feedback
             /\ scores' = scores
             /\ contents' = contents
             /\ feedbacks' = feedbacks]_vars

\* the Improver returned and the Evaluator raised on its output
C25_Witness ==
    /\ Iter
    /\ Len(calls) = 3
    /\ calls[2].result # None
    /\ calls[3].result = None
    /\ calls[2].result[1] # content
    /\ iteration_count = 1
    /\ contents = <<content>>

\* C26: in every state of a DocumentIterator scores, feedbacks and
\* iteration_count agree in length, contents holds the initial content first
\* and one entry per improvement after it, and once an evaluation has run the
\* current fields and the three getters report the last entries.
C26_IteratorBookkeeping ==
    Iter => /\ Len(scores) = iteration_count
            /\ Len(feedbacks) = iteration_count
            /\ Len(contents) = (IF iteration_count >= 1 THEN iteration_count ELSE 1)
            /\ contents[1] = content
            /\ iteration_count >= 1 =>
                  /\ current_content = Last(contents)
                  /\ current_feedback = Last(feedbacks)
                  /\ get_final_content = Last(contents)
                  /\ get_final_score = Last(scores)
                  /\ get_improvement_delta = Last(scores) - scores[1]

\* two improvements recorded, the last score differing from the baseline's
C26_Witness ==
    /\ Iter
    /\ iteration_count = 3
    /\ Last(scores) # scores[1]
    /\ Last(contents) # content

\* C27 as stated: auto_improve_document completes normally for every
\* max_iterations >= 0: when the file exists and no collaborator call fails
\* it never raises, and with max_iterations = 0 and a baseline score below
\* the target it makes no Improver call and returns the original path.
C27_CompletesForEveryMax ==
    (Core /\ path_exists /\ Failed = {})
        => /\ pc # "raised"
           /\ (max_iterations = 0 /\ calls # <<>>)
                 => /\ pc = "returned"
                    /\ ImproverCalls = 0
                    /\ final_path = Some(InputPath)

\* C28: the path returned by auto_improve_document names the file holding
\* the document whose evaluation produced the final score: the file written
\* for the last performed improvement iteration, or the input path when the
\* baseline met the target; and every improved document is in its iteration
\* file when it is evaluated.
C28_ReturnedPathHoldsFinalDocument ==
    Core => /\ pc = "returned" =>
                 /\ Last(calls).op = "evaluate"
                 /\ Last(calls).result # None
                 /\ IF ImproverCalls = 0
                    THEN final_path = Some(InputPath) /\ Last(calls).doc = content
                    ELSE /\ final_path = Some(IterPath(ImproverCalls))
                         /\ <<IterPath(ImproverCalls), Last(calls).doc>> \in iter_files
            /\ \A i \in 2..Len(calls) :
                  calls[i].op = "evaluate"
                     => <<IterPath(i \div 2), calls[i].doc>> \in iter_files

\* returns after the second improvement met the target
C28_Witness ==
    /\ Core
    /\ pc = "returned"
    /\ ImproverCalls = 2
    /\ Last(calls).result[1] >= target_score
    /\ final_path = Some(IterPath(2))
    /\ Last(calls).doc # content

\* the sum of the non-null "improvement" values of a summary's rows
RECURSIVE SumImprovements(_)
SumImprovements(rows) ==
    IF rows = <<>> THEN 0
    ELSE SumImprovements(SubSeq(rows, 1, Len(rows) - 1))
         + (IF Last(rows).improvement = None THEN 0 ELSE Last(rows).improvement[1])

ImproveDecoder == entry = "parse_improve"
\* json.JSONDecodeError is a subclass of ValueError
ValueErrors == {"ValueError", "JSONDecodeError"}
\* the closing brace that matches the opening one when the braces inside the
\* string are not counted, or 0
RECURSIVE MatchingBrace(_, _, _, _)
MatchingBrace(cs, i, depth, in_string) ==
    IF i > Len(cs) THEN 0
    ELSE IF cs[i] = "\"" THEN MatchingBrace(cs, i + 1, depth, ~in_string)
    ELSE IF in_string THEN MatchingBrace(cs, i + 1, depth, in_string)
    ELSE IF cs[i] = "{" THEN MatchingBrace(cs, i + 1, depth + 1, in_string)
    ELSE IF cs[i] = "}"
         THEN (IF depth = 1 THEN i ELSE MatchingBrace(cs, i + 1, depth - 1, in_string))
    ELSE MatchingBrace(cs, i + 1, depth, in_string)

\* C30 as stated: parse_improve returns the improved_content of the JSON
\* object that starts on the first line beginning with '{' and ends at the
\* matching closing brace, for every response whose object is well formed,
\* braces inside improved_content included; it raises ValueError when no
\* line starts with '{' and when the braces never balance.
C30_ParseImproveReturnsContent ==
    (ImproveDecoder /\ decoded # None)
        => LET found == BraceLines(response) IN
           IF found = {} THEN decoded[1].raised \in ValueErrors
           ELSE LET from == SubSeq(response, CHOOSE p \in found : \A q \in found : p <= q,
                                   Len(response))
                    end == MatchingBrace(from, 1, 0, FALSE)
                IN IF end = 0 THEN decoded[1].raised \in ValueErrors
                   ELSE json_loads(SubSeq(from, 1, end)).raised = ""
                           => decoded[1] = json_loads(SubSeq(from, 1, end))

====
